---- MODULE Spec2Model ----
\* A model of gabehf/music-importer: the web trigger (handleHome, handleRun),
\* the import pipeline (RunImporter and the functions it calls), the lyrics
\* walk (DownloadAlbumLyrics), the cover embedding (EmbedAlbumArtIntoFolder)
\* and, each alone, TrackDuration, sanitize, fetchLRCLibLyrics and the
\* destination of moveToLibrary.
\*
\* Strings whose characters matter (artist, album, title, lyrics) are
\* sequences of one-character strings; file names are records [stem, ext].
EXTENDS Integers, Sequences, FiniteSets, TLC

\* ---------------------------------------------------------------- bounds

\* trigger requests handled (each may spawn one RunImporter goroutine)
MaxReqs == 2
\* album directories under the import root
NumAlbums == 2
\* audio files per album directory
MaxTracks == 2
\* calls of DownloadAlbumLyrics on one directory
MaxPasses == 2
\* length of the strings handed to sanitize, moveToLibrary and plainToLRC
MaxLen == 2
\* largest duration ffprobe reports to TrackDuration, in tenths of a second
MaxTenths == 30

Reqs == 1..MaxReqs
Albums == 1..NumAlbums
\* the directories of the import root: 0 is a folder that holds no audio
Entries == 0..NumAlbums

\* ---------------------------------------------------------------- strings

EmptyStr == <<>>

\* values the embedded tags and the providers' answers are drawn from
TagStrings == {EmptyStr, <<"F">>}

\* strings.NewReplacer(...) of sanitize: the replacement of one character
ReplacerTable(c) ==
  CASE c = "/" -> <<"_">>
    [] c = "\\" -> <<"_">>
    [] c = ":" -> <<"-">>
    [] c \in {"?", "*", "\"", "<", ">", "|"} -> <<>>
    [] OTHER -> <<c>>

RECURSIVE ReplaceAll(_)
ReplaceAll(s) ==
  IF s = <<>> THEN <<>> ELSE ReplacerTable(Head(s)) \o ReplaceAll(Tail(s))

\* sanitize replacing the first character only
sanitizeFirstOnly(s) ==
  IF s = <<>> THEN s ELSE ReplacerTable(Head(s)) \o Tail(s)

sanitize(s) == ReplaceAll(s)

\* the strings of at most n characters over an alphabet
StringsUpTo(alphabet, n) == UNION {[1..k -> alphabet] : k \in 0..n}

\* filepath.Join relative to the library root: empty elements are dropped
\* and the result is Cleaned ("." dropped, ".." climbs). up > 0 means the
\* path has left the root.
RECURSIVE CleanFrom(_, _)
CleanFrom(acc, elems) ==
  IF elems = <<>> THEN acc
  ELSE LET e == Head(elems)
           nxt == IF e = EmptyStr \/ e = <<".">> THEN acc
                  ELSE IF e = <<".", ".">>
                       THEN IF acc.comps # <<>>
                            THEN [acc EXCEPT !.comps = SubSeq(@, 1, Len(@) - 1)]
                            ELSE [acc EXCEPT !.up = @ + 1]
                       ELSE [acc EXCEPT !.comps = Append(@, e)]
       IN CleanFrom(nxt, Tail(elems))

Join(elems) == CleanFrom([up |-> 0, comps |-> <<>>], elems)

\* ---------------------------------------------------------------- file names

Stems == <<"01", "02", "03", "04", "05">>
Exts == <<".flac", ".MP3", ".mp3", ".FLAC", ".flac">>

TrackName(t) == [stem |-> Stems[t], ext |-> Exts[t]]
CoverFile == [stem |-> "Cover", ext |-> ".jpg"]
NotesFile == [stem |-> "notes", ext |-> ".txt"]

\* directory order of os.ReadDir (sorted by file name)
SortedNames == [t \in 1..MaxTracks |-> TrackName(t)] \o <<CoverFile, NotesFile>>

\* strings.ToLower on the strings file names are made of
ToLower(s) ==
  CASE s = ".MP3" -> ".mp3"
    [] s = ".FLAC" -> ".flac"
    [] s = "Cover" -> "cover"
    [] OTHER -> s

coverNames ==
  { [stem |-> s, ext |-> e] : s \in {"cover", "folder"}, e \in {".jpg", ".jpeg", ".png"} }

IsAudio(name) == ToLower(name.ext) \in {".flac", ".mp3"}

\* ---------------------------------------------------------------- metadata

Md(a, b, t) == [nil |-> FALSE, Artist |-> a, Album |-> b, Title |-> t]
NilMd == [nil |-> TRUE, Artist |-> EmptyStr, Album |-> EmptyStr, Title |-> EmptyStr]

firstNonEmpty(vals) ==
  IF \E k \in 1..Len(vals) : vals[k] # EmptyStr
  THEN vals[CHOOSE k \in 1..Len(vals) :
              vals[k] # EmptyStr /\ \A m \in 1..(k - 1) : vals[m] = EmptyStr]
  ELSE EmptyStr

\* what ffprobe -show_format gives for a file
TagMaps ==
  [artist : TagStrings, ARTIST : TagStrings, album : TagStrings,
   ALBUM : TagStrings, title : TagStrings, TITLE : TagStrings]
NoTagMap ==
  [artist |-> EmptyStr, ARTIST |-> EmptyStr, album |-> EmptyStr,
   ALBUM |-> EmptyStr, title |-> EmptyStr, TITLE |-> EmptyStr]
Probes ==
  {[fail |-> TRUE, hasTags |-> FALSE, tags |-> NoTagMap],
   [fail |-> FALSE, hasTags |-> FALSE, tags |-> NoTagMap]}
  \cup {[fail |-> FALSE, hasTags |-> TRUE, tags |-> m] : m \in TagMaps}

\* readTags: (nil, err) when ffprobe fails, the zero metadata when the output
\* carries no tags, else the first non-empty of the lower/upper case keys
readTags(probe) ==
  IF probe.fail THEN [err |-> TRUE, md |-> NilMd]
  ELSE IF ~probe.hasTags THEN [err |-> FALSE, md |-> Md(EmptyStr, EmptyStr, EmptyStr)]
  ELSE [err |-> FALSE,
        md |-> Md(firstNonEmpty(<<probe.tags.artist, probe.tags.ARTIST>>),
                  firstNonEmpty(<<probe.tags.album, probe.tags.ALBUM>>),
                  firstNonEmpty(<<probe.tags.title, probe.tags.TITLE>>))]

\* answers of the MusicBrainz recording search, as curl delivers them
Credits == {<<>>} \cup {<<[Name |-> n]>> : n \in TagStrings}
Releases == {<<>>} \cup {<<[Title |-> t, ArtistCredit |-> c]>> : t \in TagStrings, c \in Credits}
Recordings == {<<>>} \cup {<<[Title |-> t, Releases |-> r]>> : t \in TagStrings, r \in Releases}
MBResponses ==
  {[curlErr |-> TRUE, badJSON |-> FALSE, Recordings |-> <<>>],
   [curlErr |-> FALSE, badJSON |-> TRUE, Recordings |-> <<>>]}
  \cup {[curlErr |-> FALSE, badJSON |-> FALSE, Recordings |-> r] : r \in Recordings}

\* fetchMusicBrainzInfo: "ok" with the first release of the first recording,
\* "err", or "panic" (rel.ArtistCredit[0] on an empty slice)
fetchMusicBrainzInfo(resp) ==
  IF resp.curlErr \/ resp.badJSON THEN [kind |-> "err", md |-> NilMd]
  ELSE IF Len(resp.Recordings) = 0 \/ Len(resp.Recordings[1].Releases) = 0
       THEN [kind |-> "err", md |-> NilMd]
  ELSE LET r == resp.Recordings[1]
           rel == r.Releases[1]
       IN IF Len(rel.ArtistCredit) = 0 THEN [kind |-> "panic", md |-> NilMd]
          ELSE [kind |-> "ok", md |-> Md(rel.ArtistCredit[1].Name, rel.Title, r.Title)]

NotQueried == [kind |-> "none", md |-> NilMd]

\* getAlbumMetadata keeping the title of the embedded tags when it falls back
getAlbumMetadataMerging(tagErr, probe, resp) ==
  LET rd == readTags(probe)
  IN IF ~rd.err /\ rd.md.Artist # EmptyStr /\ rd.md.Album # EmptyStr
     THEN [kind |-> "ok", md |-> rd.md, tagErr |-> tagErr, read |-> rd,
           search |-> NotQueried]
     ELSE LET mb == fetchMusicBrainzInfo(resp)
          IN [kind |-> mb.kind,
              md |-> IF mb.kind = "ok" /\ ~rd.err /\ rd.md.Title # EmptyStr
                     THEN [mb.md EXCEPT !.Title = rd.md.Title] ELSE mb.md,
              tagErr |-> tagErr, read |-> rd, search |-> mb]

\* getAlbumMetadata: beets' failure is only logged; the tags read afterwards
\* win when artist and album are both there; otherwise MusicBrainz decides
getAlbumMetadata(tagErr, probe, resp) ==
  LET rd == readTags(probe)
  IN IF ~rd.err /\ rd.md.Artist # EmptyStr /\ rd.md.Album # EmptyStr
     THEN [kind |-> "ok", md |-> rd.md, tagErr |-> tagErr, read |-> rd,
           search |-> NotQueried]
     ELSE LET mb == fetchMusicBrainzInfo(resp)
          IN [kind |-> mb.kind, md |-> mb.md, tagErr |-> tagErr, read |-> rd,
              search |-> mb]


\* ---------------------------------------------------------------- lyrics

\* the path DownloadAlbumLyrics stats and writes for a track, lines 63 and 69:
\* the lowered extension is trimmed from the path, then ".lrc" is appended
lrcPath(name) ==
  LET ext == ToLower(name.ext)
  IN IF name.ext = ext
     THEN [stem |-> name.stem, ext |-> ".lrc"]
     ELSE [stem |-> name.stem, ext |-> name.ext \o ".lrc"]

\* what ffprobe prints for format=duration: nothing, no number, or seconds
\* (held in tenths of a second)
DurationProbes ==
  {[runErr |-> TRUE, kind |-> "empty", tenths |-> 0],
   [runErr |-> FALSE, kind |-> "empty", tenths |-> 0],
   [runErr |-> FALSE, kind |-> "garbage", tenths |-> 0]}
  \cup {[runErr |-> FALSE, kind |-> "number", tenths |-> d] :
          d \in {0 - 27, 0 - 3, 0, 1234, 1235}}

\* int(x) of Go for x given in tenths: the fraction is discarded
Truncate(tenths) ==
  IF tenths >= 0 THEN tenths \div 10 ELSE 0 - ((0 - tenths) \div 10)

\* TrackDuration: (0, err) on a failed or empty or unparsable probe, else
\* int(flt + 0.5)
TrackDuration(probe) ==
  IF probe.runErr \/ probe.kind = "empty" \/ probe.kind = "garbage"
  THEN [err |-> TRUE, seconds |-> 0]
  ELSE [err |-> FALSE, seconds |-> Truncate(probe.tenths + 5)]

RECURSIVE urlEncode(_)
urlEncode(s) ==
  IF s = <<>> THEN <<>>
  ELSE <<IF Head(s) = " " THEN "+" ELSE Head(s)>> \o urlEncode(Tail(s))

\* strings.Split(s, "\n")
RECURSIVE SplitFrom(_, _)
SplitFrom(cur, s) ==
  IF s = <<>> THEN <<cur>>
  ELSE IF Head(s) = "\n" THEN <<cur>> \o SplitFrom(<<>>, Tail(s))
  ELSE SplitFrom(Append(cur, Head(s)), Tail(s))

Split(s) == SplitFrom(<<>>, s)

WhiteSpace == {" ", "\t", "\n", "\r", "\f"}

RECURSIVE TrimSpace(_)
TrimSpace(s) ==
  IF s = <<>> THEN s
  ELSE IF Head(s) \in WhiteSpace THEN TrimSpace(Tail(s))
  ELSE IF s[Len(s)] \in WhiteSpace THEN TrimSpace(SubSeq(s, 1, Len(s) - 1))
  ELSE s

ZeroStamp == <<"[", "0", "0", ":", "0", "0", ".", "0", "0", "]", " ">>

RECURSIVE WrapLines(_)
WrapLines(lines) ==
  IF lines = <<>> THEN <<>>
  ELSE ZeroStamp \o TrimSpace(Head(lines)) \o <<"\n">> \o WrapLines(Tail(lines))

plainToLRC(plain) == WrapLines(Split(plain))

\* what the lyrics provider's answer can be
SyncedTexts == {EmptyStr, <<"[", "0", "1", "]", "a">>}
PlainTexts == {EmptyStr, <<"a", "\n", "b">>, <<" ", "a", " ">>}
NoBody == [badJSON |-> FALSE, SyncedLyrics |-> EmptyStr, PlainLyrics |-> EmptyStr]
LRCResponses ==
  {[getErr |-> TRUE, status |-> 0, readErr |-> FALSE, body |-> NoBody],
   [getErr |-> FALSE, status |-> 404, readErr |-> FALSE, body |-> NoBody],
   [getErr |-> FALSE, status |-> 200, readErr |-> TRUE, body |-> NoBody],
   [getErr |-> FALSE, status |-> 200, readErr |-> FALSE,
    body |-> [NoBody EXCEPT !.badJSON = TRUE]]}
  \cup {[getErr |-> FALSE, status |-> 200, readErr |-> FALSE,
          body |-> [badJSON |-> FALSE, SyncedLyrics |-> sl, PlainLyrics |-> pl]] :
          sl \in SyncedTexts, pl \in PlainTexts}

\* fetchLRCLibLyrics preferring the plain lyrics to the synced ones
fetchLRCLibLyricsPlainFirst(artist, title, album, duration, resp) ==
  LET url == [artist_name |-> urlEncode(artist), track_name |-> urlEncode(title),
              album_name |-> urlEncode(album), duration |-> duration]
      fail == [url |-> url, err |-> TRUE, lyrics |-> EmptyStr]
  IN IF resp.getErr \/ resp.status # 200 \/ resp.readErr \/ resp.body.badJSON THEN fail
     ELSE IF resp.body.PlainLyrics # EmptyStr
          THEN [url |-> url, err |-> FALSE, lyrics |-> plainToLRC(resp.body.PlainLyrics)]
     ELSE IF resp.body.SyncedLyrics # EmptyStr
          THEN [url |-> url, err |-> FALSE, lyrics |-> resp.body.SyncedLyrics]
     ELSE fail

\* fetchLRCLibLyrics: the query it sends, and the lyrics or the error it returns
fetchLRCLibLyrics(artist, title, album, duration, resp) ==
  LET url == [artist_name |-> urlEncode(artist), track_name |-> urlEncode(title),
              album_name |-> urlEncode(album), duration |-> duration]
      fail == [url |-> url, err |-> TRUE, lyrics |-> EmptyStr]
  IN IF resp.getErr \/ resp.status # 200 \/ resp.readErr \/ resp.body.badJSON THEN fail
     ELSE IF resp.body.SyncedLyrics # EmptyStr
          THEN [url |-> url, err |-> FALSE, lyrics |-> resp.body.SyncedLyrics]
     ELSE IF resp.body.PlainLyrics # EmptyStr
          THEN [url |-> url, err |-> FALSE, lyrics |-> plainToLRC(resp.body.PlainLyrics)]
     ELSE fail

NoFetch ==
  [url |-> [artist_name |-> EmptyStr, track_name |-> EmptyStr,
            album_name |-> EmptyStr, duration |-> 0],
   err |-> FALSE, lyrics |-> EmptyStr]
NoDuration == [err |-> FALSE, seconds |-> 0]

\* HandleTrack with the album left out of the check of line 81
HandleTrackAlbumUnchecked(probe, durProbe, resp, writeErr) ==
  LET rd == readTags(probe)
  IN IF rd.err \/ rd.md.Title = EmptyStr \/ rd.md.Artist = EmptyStr
     THEN [read |-> rd, dur |-> NoDuration, requested |-> FALSE, fetch |-> NoFetch,
           step |-> "skipped"]
     ELSE LET dur == TrackDuration(durProbe)
              f == fetchLRCLibLyrics(rd.md.Artist, rd.md.Title, rd.md.Album,
                                     dur.seconds, resp)
          IN [read |-> rd, dur |-> dur, requested |-> TRUE, fetch |-> f,
              step |-> IF f.err THEN "skipped"
                       ELSE IF writeErr THEN "writeFailed" ELSE "wrote"]

\* the walk function of DownloadAlbumLyrics for a track without a sidecar,
\* lines 75-100: what it read, whether it asked the provider, and how it
\* ended ("skipped", "wrote", or "writeFailed" = the returned error)
HandleTrack(probe, durProbe, resp, writeErr) ==
  LET rd == readTags(probe)
  IN IF rd.err \/ rd.md.Title = EmptyStr \/ rd.md.Artist = EmptyStr \/ rd.md.Album = EmptyStr
     THEN [read |-> rd, dur |-> NoDuration, requested |-> FALSE, fetch |-> NoFetch,
           step |-> "skipped"]
     ELSE LET dur == TrackDuration(durProbe)
              f == fetchLRCLibLyrics(rd.md.Artist, rd.md.Title, rd.md.Album,
                                     dur.seconds, resp)
          IN [read |-> rd, dur |-> dur, requested |-> TRUE, fetch |-> f,
              step |-> IF f.err THEN "skipped"
                       ELSE IF writeErr THEN "writeFailed" ELSE "wrote"]

NoOutcome ==
  [read |-> [err |-> FALSE, md |-> NilMd], dur |-> NoDuration, requested |-> FALSE,
   fetch |-> NoFetch, step |-> "skipped"]

\* every way the handling of one track can go, over what ffprobe, the
\* provider and the file system deliver
TrackOutcomes ==
  { HandleTrack(probe, durProbe, resp, writeErr) :
      probe \in Probes, durProbe \in DurationProbes, resp \in LRCResponses,
      writeErr \in BOOLEAN }

\* every result getAlbumMetadata can give, over beets' exit, what ffprobe
\* prints and what MusicBrainz answers
MetadataResults ==
  { getAlbumMetadata(tagErr, probe, resp) :
      tagErr \in BOOLEAN, probe \in Probes, resp \in MBResponses }

MetadataOutcomes == { [kind |-> m.kind, md |-> m.md] : m \in MetadataResults }

\* ---------------------------------------------------------------- state

VARIABLES
  importerRunning,  \* var importerRunning bool (guarded by importerMu)
  reqs,             \* the /run requests: [pc, running]
  rendered,         \* what handleHome rendered last
  crashed,          \* the process died of an unrecovered panic
  env,              \* IMPORT_DIR and LIBRARY_DIR ("" = unset)
  albumExists,      \* which album directories exist under the import root
  albumFiles,       \* the files in each album directory
  files0,           \* albumFiles before any run (never changes)
  library,          \* the files under the library root: {[dir, name, file]}
  runs,             \* the RunImporter goroutines: locals and position
  enumerated,       \* per run and album: the tracks getAudioFiles returned
  attempts,         \* per run and album: the moveToLibrary calls: [name, ok, dir]
  outcome,          \* per run and album: how the album's iteration ended
  resolverIn,       \* getAlbumMetadata alone: what its collaborators deliver
  resolverOut,      \* getAlbumMetadata alone: what it returned
  lpc,              \* DownloadAlbumLyrics: "idle", "walking" or "returned"
  pass,             \* how many times DownloadAlbumLyrics was called
  walk,             \* the entries filepath.Walk visits in this call
  pos,              \* the entry the walk is at
  sidecars,         \* the .lrc files of the directory: {[path, content, pass]}
  requests,         \* the lyrics-provider requests made: {[pass, name]}
  lret,             \* what DownloadAlbumLyrics returned
  last,             \* the last visit of the walk function
  unitIn,           \* one function alone: the arguments it is called with
  unitOut,          \* one function alone: what its calls returned, in order
  embed,            \* EmbedAlbumArtIntoFolder: locals and position
  tmpDir            \* the files in os.TempDir(): {[by, content]}

webVars == <<importerRunning, reqs, rendered>>
fsVars == <<albumExists, albumFiles, library>>
histVars == <<enumerated, attempts, outcome>>
\* what no step of the server or of RunImporter changes
lyricsVars == <<lpc, pass, walk, pos, sidecars, requests, lret, last>>
callVars == <<unitIn, unitOut, embed, tmpDir>>
restVars == <<files0, resolverIn, resolverOut, lyricsVars, callVars>>
vars == <<importerRunning, reqs, rendered, crashed, env, albumExists,
          albumFiles, files0, library, runs, enumerated, attempts, outcome,
          resolverIn, resolverOut, lpc, pass, walk, pos, sidecars, requests,
          lret, last, unitIn, unitOut, embed, tmpDir>>

IdleRun ==
  [pc |-> "none", entries |-> <<>>, i |-> 0, tracks |-> <<>>, j |-> 0,
   md |-> NilMd, fatal |-> FALSE, calls |-> {}]

\* The import root holds a loose file, a folder without audio and the album
\* directories. Odd albums hold MaxTracks tracks and a cover; even albums hold
\* one track less, no cover, and a text file that no stage moves.
AlbumContents(a) ==
  IF a % 2 = 1
  THEN {TrackName(t) : t \in 1..MaxTracks} \cup {CoverFile}
  ELSE {TrackName(t) : t \in 1..(MaxTracks - 1)} \cup {NotesFile}

EnvValues ==
  { [IMPORT_DIR |-> i, LIBRARY_DIR |-> l] :
      i \in {"", "/import"}, l \in {"", "/library"} }

InitFS(waiting) ==
  /\ env \in EnvValues
  /\ albumExists = [a \in Albums |-> a \in waiting]
  /\ albumFiles = [a \in Albums |-> IF a \in waiting THEN AlbumContents(a) ELSE {}]
  /\ files0 = albumFiles
  /\ library = {}

InitHist ==
  /\ enumerated = [r \in Reqs |-> [a \in Entries |-> <<>>]]
  /\ attempts = [r \in Reqs |-> [a \in Entries |-> <<>>]]
  /\ outcome = [r \in Reqs |-> [a \in Entries |-> "unvisited"]]

NoInput == [tagErr |-> FALSE, probe |-> CHOOSE p \in Probes : p.fail,
            resp |-> CHOOSE m \in MBResponses : m.curlErr]
NoResult ==
  [kind |-> "none", md |-> NilMd, tagErr |-> FALSE,
   read |-> [err |-> FALSE, md |-> NilMd], search |-> NotQueried]

ResolverIdle == resolverIn = NoInput /\ resolverOut = NoResult

NoVisit ==
  [name |-> NotesFile, track |-> FALSE, hadSidecar |-> FALSE, walkErr |-> FALSE,
   out |-> NoOutcome]

LyricsIdle ==
  /\ lpc = "idle"
  /\ pass = 0
  /\ walk = <<>>
  /\ pos = 0
  /\ sidecars = {}
  /\ requests = {}
  /\ lret = "nil"
  /\ last = NoVisit

NoCall == [fn |-> "none"]

EmbedIdle ==
  [pc |-> "idle", album |-> 0, pos |-> 0, tmp |-> 0, created |-> 0,
   removeFailed |-> FALSE, ret |-> "none", calls |-> <<>>]

UnitsIdle ==
  /\ unitIn = NoCall
  /\ unitOut = <<>>
  /\ embed = EmbedIdle
  /\ tmpDir = {}

\* the server after main() set it up, with one album waiting to be imported
Init ==
  /\ importerRunning = FALSE
  /\ reqs = [q \in Reqs |-> [pc |-> "new", running |-> FALSE, busy |-> FALSE]]
  /\ rendered = "none"
  /\ crashed = FALSE
  /\ InitFS({1})
  /\ InitHist
  /\ runs = [r \in Reqs |-> IdleRun]
  /\ ResolverIdle
  /\ LyricsIdle
  /\ UnitsIdle

\* ---------------------------------------------------------------- web server

\* the RunImporter executions that were started and have not returned
ActiveRuns == {r \in Reqs : runs[r].pc \notin {"none", "done"} /\ ~crashed}

\* handleHome: read the flag under the lock, render the page
handleHome ==
  /\ ~crashed
  /\ rendered' = IF importerRunning THEN "Importer Running..." ELSE "Run Importer"
  /\ UNCHANGED <<importerRunning, reqs, crashed, env, fsVars, restVars, runs, histVars>>

\* handleRun up to importerMu.Unlock(): the method check and the read of the flag
handleRunRead(q) ==
  /\ ~crashed
  /\ reqs[q].pc = "new"
  /\ \E method \in {"GET", "POST"} :
       reqs' = [reqs EXCEPT ![q] =
                  IF method # "POST"
                  THEN [@ EXCEPT !.pc = "405"]
                  ELSE [pc |-> "read", running |-> importerRunning,
                        busy |-> ActiveRuns # {}]]
  /\ UNCHANGED <<importerRunning, rendered, crashed, env, fsVars, restVars, runs, histVars>>

\* handleRun after the unlock: redirect, after `go RunImporter()` unless running
handleRunSpawn(q) ==
  /\ ~crashed
  /\ reqs[q].pc = "read"
  /\ reqs' = [reqs EXCEPT ![q].pc = "303"]
  /\ runs' = IF reqs[q].running THEN runs
             ELSE [runs EXCEPT ![q] = [IdleRun EXCEPT !.pc = "start"]]
  /\ UNCHANGED <<importerRunning, rendered, crashed, env, fsVars, restVars, histVars>>

\* ---------------------------------------------------------------- RunImporter

LooseEntry == [isDir |-> FALSE, album |-> 0]
DirEntry(a) == [isDir |-> TRUE, album |-> a]

\* os.ReadDir(importDir): a loose file, the folder without audio (album 0),
\* then the album directories by name
ReadImportDir ==
  <<LooseEntry, DirEntry(0)>> \o
  SelectSeq([a \in Albums |-> DirEntry(a)], LAMBDA e : albumExists[e.album])

FilesOf(a) == IF a = 0 THEN {NotesFile} ELSE albumFiles[a]
DirExists(a) == a = 0 \/ albumExists[a]

\* getAudioFiles: the regular files with a .flac or .mp3 extension, in order
getAudioFiles(files) ==
  SelectSeq(SortedNames, LAMBDA n : n \in files /\ IsAudio(n))

\* media.FindCoverImage: the first entry whose lowered name is a cover name
FindCoverImage(files) ==
  LET hits == SelectSeq(SortedNames,
                LAMBDA n : n \in files
                           /\ [stem |-> ToLower(n.stem), ext |-> ToLower(n.ext)] \in coverNames)
  IN IF hits = <<>> THEN [found |-> FALSE, name |-> NotesFile]
     ELSE [found |-> TRUE, name |-> hits[1]]

\* the destination moveToLibrary computes, relative to the library root
Destination(md, name) ==
  [dir |-> Join(<<sanitize(md.Artist), sanitize(md.Album)>>), name |-> name]

\* the library after os.Rename put file f at dst (an existing file is replaced)
Renamed(lib, dst, f) ==
  {e \in lib : ~(e.dir = dst.dir /\ e.name = dst.name)}
    \cup {[dir |-> dst.dir, name |-> dst.name, file |-> f]}

\* `continue` / the end of one iteration of the loop over entries
NextEntry(run) ==
  [run EXCEPT !.pc = "loop", !.i = @ + 1, !.tracks = <<>>, !.j = 0, !.md = NilMd]

CurAlbum(r) == runs[r].entries[runs[r].i].album

\* RunStart with the check of LIBRARY_DIR forgotten
RunStartUncheckedLibrary(r) ==
  /\ ~crashed
  /\ runs[r].pc = "start"
  /\ \E readErr \in BOOLEAN :
       runs' = [runs EXCEPT ![r] =
                  IF env.IMPORT_DIR = "" \/ readErr
                  THEN [@ EXCEPT !.pc = "done", !.fatal = TRUE]
                  ELSE [@ EXCEPT !.pc = "loop", !.i = 1, !.entries = ReadImportDir]]
  /\ UNCHANGED <<webVars, crashed, env, fsVars, restVars, histVars>>

\* RunImporter, lines 314-328: the environment and the read of the import root
RunStart(r) ==
  /\ ~crashed
  /\ runs[r].pc = "start"
  /\ \E readErr \in BOOLEAN :
       runs' = [runs EXCEPT ![r] =
                  IF env.IMPORT_DIR = "" \/ env.LIBRARY_DIR = "" \/ readErr
                  THEN [@ EXCEPT !.pc = "done", !.fatal = TRUE]
                  ELSE [@ EXCEPT !.pc = "loop", !.i = 1, !.entries = ReadImportDir]]
  /\ UNCHANGED <<webVars, crashed, env, fsVars, restVars, histVars>>

\* lines 330-345: the next entry; files and folders without audio are passed over
RunScan(r) ==
  /\ ~crashed
  /\ runs[r].pc = "loop"
  /\ IF runs[r].i > Len(runs[r].entries)
     THEN /\ runs' = [runs EXCEPT ![r].pc = "done"]
          /\ UNCHANGED histVars
     ELSE IF ~runs[r].entries[runs[r].i].isDir
     THEN /\ runs' = [runs EXCEPT ![r] = NextEntry(@)]
          /\ UNCHANGED histVars
     ELSE LET a == CurAlbum(r)
              tracks == getAudioFiles(FilesOf(a))
          IN \E scanErr \in BOOLEAN :
               IF scanErr \/ ~DirExists(a)
               THEN /\ runs' = [runs EXCEPT ![r] = NextEntry(@)]
                    /\ outcome' = [outcome EXCEPT ![r][a] = "scanFailed"]
                    /\ UNCHANGED <<enumerated, attempts>>
               ELSE IF tracks = <<>>
               THEN /\ runs' = [runs EXCEPT ![r] = NextEntry(@)]
                    /\ outcome' = [outcome EXCEPT ![r][a] = "noAudio"]
                    /\ UNCHANGED <<enumerated, attempts>>
               ELSE /\ runs' = [runs EXCEPT ![r].pc = "meta", ![r].tracks = tracks]
                    /\ enumerated' = [enumerated EXCEPT ![r][a] = tracks]
                    /\ UNCHANGED <<outcome, attempts>>
  /\ UNCHANGED <<webVars, crashed, env, fsVars, restVars>>

\* lines 349-354: getAlbumMetadata on the first track
RunMetadata(r) ==
  /\ ~crashed
  /\ runs[r].pc = "meta"
  /\ \E m \in MetadataOutcomes :
       LET a == CurAlbum(r)
       IN CASE m.kind = "ok" ->
                 /\ runs' = [runs EXCEPT ![r].pc = "gain", ![r].md = m.md,
                                         ![r].calls = @ \cup {"beet"}]
                 /\ UNCHANGED <<crashed, outcome>>
            [] m.kind = "err" ->
                 /\ runs' = [runs EXCEPT ![r] = NextEntry([@ EXCEPT !.calls = @ \cup {"beet"}])]
                 /\ outcome' = [outcome EXCEPT ![r][a] = "metadataFailed"]
                 /\ UNCHANGED crashed
            [] OTHER ->
                 /\ crashed' = TRUE
                 /\ runs' = [runs EXCEPT ![r].calls = @ \cup {"beet"}]
                 /\ outcome' = [outcome EXCEPT ![r][a] = "metadataPanicked"]
  /\ UNCHANGED <<webVars, env, fsVars, restVars, enumerated, attempts>>

\* lines 356-361: applyReplayGain over the album directory
RunReplayGain(r) ==
  /\ ~crashed
  /\ runs[r].pc = "gain"
  /\ \E gainErr \in BOOLEAN :
       IF gainErr
       THEN /\ runs' = [runs EXCEPT ![r] = NextEntry([@ EXCEPT !.calls = @ \cup {"rsgain"}])]
            /\ outcome' = [outcome EXCEPT ![r][CurAlbum(r)] = "replayGainFailed"]
       ELSE /\ runs' = [runs EXCEPT ![r].pc = "embed", ![r].calls = @ \cup {"rsgain"}]
            /\ UNCHANGED outcome
  /\ UNCHANGED <<webVars, crashed, env, fsVars, restVars, enumerated, attempts>>

\* lines 363-368: media.EmbedAlbumArtIntoFolder; without a cover it returns nil.
\* Its steps are those of SpecEmbed; what embedCoverFLAC put into os.TempDir()
\* is gone when it returns, so tmpDir is as before.
RunEmbed(r) ==
  /\ ~crashed
  /\ runs[r].pc = "embed"
  /\ \E embedErr \in BOOLEAN :
       IF embedErr /\ FindCoverImage(albumFiles[CurAlbum(r)]).found
       THEN /\ runs' = [runs EXCEPT ![r] = NextEntry([@ EXCEPT !.calls = @ \cup {"embed"}])]
            /\ outcome' = [outcome EXCEPT ![r][CurAlbum(r)] = "embedFailed"]
       ELSE /\ runs' = [runs EXCEPT ![r].pc = "move", ![r].j = 1,
                                    ![r].calls = @ \cup {"embed"}]
            /\ UNCHANGED outcome
  /\ UNCHANGED <<webVars, crashed, env, fsVars, restVars, enumerated, attempts>>

\* moveToLibrary(libraryDir, md, <album a>/<name>): MkdirAll, then Rename
moveToLibrary(r, a, md, name, mkdirErr, renameErr) ==
  LET ok == ~mkdirErr /\ ~renameErr /\ albumExists[a] /\ name \in albumFiles[a]
  IN /\ attempts' = [attempts EXCEPT ![r][a] =
                        Append(@, [name |-> name, ok |-> ok,
                                   dir |-> Destination(md, name).dir])]
     /\ IF ok
        THEN /\ albumFiles' = [albumFiles EXCEPT ![a] = @ \ {name}]
             /\ library' = Renamed(library, Destination(md, name), [album |-> a, name |-> name])
        ELSE UNCHANGED <<albumFiles, library>>

\* RunMoveTrack leaving the album at the first track that fails to move
RunMoveTrackGivingUp(r) ==
  /\ ~crashed
  /\ runs[r].pc = "move"
  /\ \E mkdirErr \in BOOLEAN, renameErr \in BOOLEAN :
       moveToLibrary(r, CurAlbum(r), runs[r].md, runs[r].tracks[runs[r].j],
                     mkdirErr, renameErr)
  /\ LET att == attempts'[r][CurAlbum(r)]
     IN runs' = [runs EXCEPT ![r].j = @ + 1, ![r].calls = @ \cup {"move"},
                             ![r].pc = IF ~att[Len(att)].ok THEN "rmdir"
                                       ELSE IF runs[r].j = Len(runs[r].tracks) THEN "cover"
                                       ELSE "move"]
  /\ UNCHANGED <<webVars, crashed, env, albumExists, restVars, enumerated, outcome>>

\* lines 370-375: one iteration of the loop over tracks
RunMoveTrack(r) ==
  /\ ~crashed
  /\ runs[r].pc = "move"
  /\ \E mkdirErr \in BOOLEAN, renameErr \in BOOLEAN :
       moveToLibrary(r, CurAlbum(r), runs[r].md, runs[r].tracks[runs[r].j],
                     mkdirErr, renameErr)
  /\ runs' = [runs EXCEPT ![r].j = @ + 1, ![r].calls = @ \cup {"move"},
                          ![r].pc = IF runs[r].j = Len(runs[r].tracks) THEN "cover" ELSE "move"]
  /\ UNCHANGED <<webVars, crashed, env, albumExists, restVars, enumerated, outcome>>

\* lines 377-382: the cover image, if FindCoverImage finds one now
RunMoveCover(r) ==
  /\ ~crashed
  /\ runs[r].pc = "cover"
  /\ LET c == FindCoverImage(FilesOf(CurAlbum(r)))
     IN IF c.found
        THEN \E mkdirErr \in BOOLEAN, renameErr \in BOOLEAN :
               moveToLibrary(r, CurAlbum(r), runs[r].md, c.name, mkdirErr, renameErr)
        ELSE UNCHANGED <<albumFiles, library, attempts>>
  /\ runs' = [runs EXCEPT ![r].pc = "rmdir",
                          ![r].calls = IF FindCoverImage(FilesOf(CurAlbum(r))).found
                                       THEN @ \cup {"move"} ELSE @]
  /\ UNCHANGED <<webVars, crashed, env, albumExists, restVars, enumerated, outcome>>

\* RunRemoveDir removing the directory whatever it still holds (os.RemoveAll)
RunRemoveDirAll(r) ==
  /\ ~crashed
  /\ runs[r].pc = "rmdir"
  /\ LET a == CurAlbum(r)
     IN /\ \E removeErr \in BOOLEAN :
             albumExists' = [albumExists EXCEPT ![a] = @ /\ removeErr]
        /\ outcome' = [outcome EXCEPT ![r][a] = "placed"]
  /\ runs' = [runs EXCEPT ![r] = NextEntry([@ EXCEPT !.calls = @ \cup {"remove"}])]
  /\ UNCHANGED <<webVars, crashed, env, albumFiles, library, restVars, enumerated, attempts>>

\* lines 384-385: os.Remove(albumPath) removes the directory only when empty
RunRemoveDir(r) ==
  /\ ~crashed
  /\ runs[r].pc = "rmdir"
  /\ LET a == CurAlbum(r)
     IN /\ \E removeErr \in BOOLEAN :
             albumExists' = [albumExists EXCEPT ![a] =
                               @ /\ (removeErr \/ albumFiles[a] # {})]
        /\ outcome' = [outcome EXCEPT ![r][a] = "placed"]
  /\ runs' = [runs EXCEPT ![r] = NextEntry([@ EXCEPT !.calls = @ \cup {"remove"}])]
  /\ UNCHANGED <<webVars, crashed, env, albumFiles, library, restVars, enumerated, attempts>>

RunImporter(r) ==
  \/ RunStart(r)
  \/ RunScan(r)
  \/ RunMetadata(r)
  \/ RunReplayGain(r)
  \/ RunEmbed(r)
  \/ RunMoveTrack(r)
  \/ RunMoveCover(r)
  \/ RunRemoveDir(r)

Next ==
  \/ handleHome
  \/ \E q \in Reqs : handleRunRead(q)
  \/ \E q \in Reqs : handleRunSpawn(q)
  \/ \E r \in Reqs : RunImporter(r)

Spec == Init /\ [][Next]_vars

\* one call of RunImporter(), as handleRun's goroutine makes it
InitImport ==
  /\ importerRunning = FALSE
  /\ reqs = [q \in Reqs |-> [pc |-> IF q = 1 THEN "303" ELSE "new",
                                 running |-> FALSE, busy |-> FALSE]]
  /\ rendered = "none"
  /\ crashed = FALSE
  /\ InitFS(Albums)
  /\ InitHist
  /\ runs = [r \in Reqs |-> IF r = 1 THEN [IdleRun EXCEPT !.pc = "start"] ELSE IdleRun]
  /\ ResolverIdle
  /\ LyricsIdle
  /\ UnitsIdle

NextImport == RunImporter(1)

SpecImport == InitImport /\ [][NextImport]_vars

\* ---------------------------------------------------------------- getAlbumMetadata alone

\* the server at rest, with nothing to import
ServerAtRest ==
  /\ importerRunning = FALSE
  /\ reqs = [q \in Reqs |-> [pc |-> "new", running |-> FALSE, busy |-> FALSE]]
  /\ rendered = "none"
  /\ crashed = FALSE
  /\ env = [IMPORT_DIR |-> "/import", LIBRARY_DIR |-> "/library"]
  /\ albumExists = [a \in Albums |-> FALSE]
  /\ albumFiles = [a \in Albums |-> {}]
  /\ files0 = albumFiles
  /\ library = {}
  /\ InitHist
  /\ runs = [r \in Reqs |-> IdleRun]

ResolverInputs == [tagErr : BOOLEAN, probe : Probes, resp : MBResponses]

InitResolver ==
  /\ ServerAtRest
  /\ LyricsIdle
  /\ UnitsIdle
  /\ resolverIn \in ResolverInputs
  /\ resolverOut = NoResult

\* one call getAlbumMetadata(albumPath, trackPath)
Resolve ==
  /\ resolverOut.kind = "none"
  /\ resolverOut' = getAlbumMetadata(resolverIn.tagErr, resolverIn.probe, resolverIn.resp)
  /\ UNCHANGED <<webVars, crashed, env, fsVars, files0, runs, histVars, resolverIn,
                 lyricsVars, callVars>>

SpecResolver == InitResolver /\ [][Resolve]_vars

\* ---------------------------------------------------------------- DownloadAlbumLyrics

ServerVars ==
  <<webVars, crashed, env, fsVars, files0, runs, histVars, resolverIn, resolverOut,
    callVars>>

LyricsTracks == {TrackName(t) : t \in 1..MaxTracks}

\* the .lrc files that may lie in the directory before the first call: next
\* to a track under its stem, or where lrcPath puts them
LrcFiles ==
  {lrcPath(n) : n \in LyricsTracks} \cup {[stem |-> n.stem, ext |-> ".lrc"] : n \in LyricsTracks}

OldLyrics == <<"o", "l", "d">>

\* the directory, its tracks and a text file in the lexical order of
\* filepath.Walk; the .lrc files, which the walk function passes over like
\* the text file, are not listed
WalkOrder ==
  <<[isDir |-> TRUE, name |-> NotesFile]>> \o
  [k \in 1..MaxTracks |-> [isDir |-> FALSE, name |-> TrackName(k)]] \o
  <<[isDir |-> FALSE, name |-> NotesFile]>>

Stat(path) == \E s \in sidecars : s.path = path

InitLyrics ==
  /\ ServerAtRest
  /\ ResolverIdle
  /\ UnitsIdle
  /\ lpc = "idle"
  /\ pass = 0
  /\ walk = <<>>
  /\ pos = 0
  /\ \E old \in SUBSET LrcFiles :
       sidecars = {[path |-> f, content |-> OldLyrics, pass |-> 0] : f \in old}
  /\ requests = {}
  /\ lret = "nil"
  /\ last = NoVisit

\* DownloadAlbumLyrics(albumDir) is called
DownloadStart ==
  /\ lpc \in {"idle", "returned"}
  /\ pass < MaxPasses
  /\ lpc' = "walking"
  /\ pass' = pass + 1
  /\ walk' = WalkOrder
  /\ pos' = 1
  /\ lret' = "nil"
  /\ last' = NoVisit
  /\ UNCHANGED <<ServerVars, sidecars, requests>>

\* the walk function with the sidecar check left out
VisitEntryUnchecked ==
  /\ lpc = "walking"
  /\ pos <= Len(walk)
  /\ LET e == walk[pos]
         visit == [name |-> e.name, track |-> FALSE, hadSidecar |-> FALSE,
                   walkErr |-> FALSE, out |-> NoOutcome]
     IN \E walkErr \in BOOLEAN :
          IF walkErr
          THEN /\ last' = [visit EXCEPT !.walkErr = TRUE]
               /\ lpc' = "returned" /\ lret' = "err"
               /\ UNCHANGED <<pos, sidecars, requests>>
          ELSE IF e.isDir \/ ~IsAudio(e.name)
          THEN /\ last' = visit
               /\ pos' = pos + 1
               /\ UNCHANGED <<lpc, lret, sidecars, requests>>
          ELSE \E o \in TrackOutcomes :
                 /\ last' = [visit EXCEPT !.track = TRUE, !.out = o,
                                          !.hadSidecar = Stat(lrcPath(e.name))]
                 /\ requests' = IF o.requested
                                THEN requests \cup {[pass |-> pass, name |-> e.name]}
                                ELSE requests
                 /\ sidecars' = IF o.step = "wrote"
                                THEN {s \in sidecars : s.path # lrcPath(e.name)} \cup
                                     {[path |-> lrcPath(e.name), content |-> o.fetch.lyrics,
                                       pass |-> pass]}
                                ELSE sidecars
                 /\ IF o.step = "writeFailed"
                    THEN lpc' = "returned" /\ lret' = "err" /\ UNCHANGED pos
                    ELSE pos' = pos + 1 /\ UNCHANGED <<lpc, lret>>
  /\ UNCHANGED <<ServerVars, pass, walk>>

\* lines 55-100: filepath.Walk calls the walk function on the next entry
VisitEntry ==
  /\ lpc = "walking"
  /\ pos <= Len(walk)
  /\ LET e == walk[pos]
         visit == [name |-> e.name, track |-> FALSE, hadSidecar |-> FALSE,
                   walkErr |-> FALSE, out |-> NoOutcome]
     IN \E walkErr \in BOOLEAN :
          IF walkErr
          THEN /\ last' = [visit EXCEPT !.walkErr = TRUE]
               /\ lpc' = "returned" /\ lret' = "err"
               /\ UNCHANGED <<pos, sidecars, requests>>
          ELSE IF e.isDir \/ ~IsAudio(e.name)
          THEN /\ last' = visit
               /\ pos' = pos + 1
               /\ UNCHANGED <<lpc, lret, sidecars, requests>>
          ELSE IF Stat(lrcPath(e.name))
          THEN /\ last' = [visit EXCEPT !.track = TRUE, !.hadSidecar = TRUE]
               /\ pos' = pos + 1
               /\ UNCHANGED <<lpc, lret, sidecars, requests>>
          ELSE \E o \in TrackOutcomes :
                 /\ last' = [visit EXCEPT !.track = TRUE, !.out = o]
                 /\ requests' = IF o.requested
                                THEN requests \cup {[pass |-> pass, name |-> e.name]}
                                ELSE requests
                 /\ sidecars' = IF o.step = "wrote"
                                THEN sidecars \cup
                                     {[path |-> lrcPath(e.name), content |-> o.fetch.lyrics,
                                       pass |-> pass]}
                                ELSE sidecars
                 /\ IF o.step = "writeFailed"
                    THEN lpc' = "returned" /\ lret' = "err" /\ UNCHANGED pos
                    ELSE pos' = pos + 1 /\ UNCHANGED <<lpc, lret>>
  /\ UNCHANGED <<ServerVars, pass, walk>>

\* lines 101-103: the walk is through; DownloadAlbumLyrics returns nil
DownloadReturn ==
  /\ lpc = "walking"
  /\ pos > Len(walk)
  /\ lpc' = "returned"
  /\ lret' = "nil"
  /\ UNCHANGED <<ServerVars, pass, walk, pos, sidecars, requests, last>>

NextLyrics == DownloadStart \/ VisitEntry \/ DownloadReturn

SpecLyrics == InitLyrics /\ [][NextLyrics]_vars

\* ---------------------------------------------------------------- functions alone

\* everything but the call under test
ProgramVars ==
  <<webVars, crashed, env, fsVars, files0, runs, histVars, resolverIn, resolverOut,
    lyricsVars>>

ProgramAtRest ==
  /\ ServerAtRest
  /\ ResolverIdle
  /\ LyricsIdle

\* what ffprobe may print for TrackDuration: the probes of the lyrics walk and
\* every number of tenths up to MaxTenths either side of zero
DurationReadings ==
  DurationProbes \cup
  {[runErr |-> FALSE, kind |-> "number", tenths |-> d] : d \in (0 - MaxTenths)..MaxTenths}

InitDuration ==
  /\ ProgramAtRest
  /\ unitIn \in {[fn |-> "TrackDuration", probe |-> p] : p \in DurationReadings}
  /\ unitOut = <<>>
  /\ embed = EmbedIdle
  /\ tmpDir = {}

\* one call TrackDuration(path)
CallTrackDuration ==
  /\ unitIn.fn = "TrackDuration"
  /\ unitOut = <<>>
  /\ unitOut' = <<TrackDuration(unitIn.probe)>>
  /\ UNCHANGED <<ProgramVars, unitIn, embed, tmpDir>>

SpecDuration == InitDuration /\ [][CallTrackDuration]_vars

\* characters of artist and album names: the nine sanitize replaces, what it
\* replaces them with, and others
NameAlphabet ==
  {"a", "_", "-", ".", "/", "\\", ":", "?", "*", "\"", "<", ">", "|"}

InitSanitize ==
  /\ ProgramAtRest
  /\ unitIn \in {[fn |-> "sanitize", s |-> t] : t \in StringsUpTo(NameAlphabet, MaxLen)}
  /\ unitOut = <<>>
  /\ embed = EmbedIdle
  /\ tmpDir = {}

\* sanitize(s), then sanitize of what that returned
CallSanitize ==
  /\ unitIn.fn = "sanitize"
  /\ Len(unitOut) < 2
  /\ unitOut' = Append(unitOut,
                       sanitize(IF unitOut = <<>> THEN unitIn.s ELSE unitOut[Len(unitOut)]))
  /\ UNCHANGED <<ProgramVars, unitIn, embed, tmpDir>>

SpecSanitize == InitSanitize /\ [][CallSanitize]_vars

\* characters of artist and album names as a provider may deliver them
PathAlphabet == {"a", ".", "/"}

InitPlacement ==
  /\ ProgramAtRest
  /\ unitIn \in {[fn |-> "moveToLibrary", md |-> Md(a, b, EmptyStr), name |-> TrackName(1)] :
                   a \in StringsUpTo(PathAlphabet, MaxLen),
                   b \in StringsUpTo(PathAlphabet, MaxLen)}
  /\ unitOut = <<>>
  /\ embed = EmbedIdle
  /\ tmpDir = {}

\* the destination of one call moveToLibrary(libDir, md, srcPath)
CallDestination ==
  /\ unitIn.fn = "moveToLibrary"
  /\ unitOut = <<>>
  /\ unitOut' = <<Destination(unitIn.md, unitIn.name)>>
  /\ UNCHANGED <<ProgramVars, unitIn, embed, tmpDir>>

SpecPlacement == InitPlacement /\ [][CallDestination]_vars

\* the plain lyrics of a provider's answer: "Line1\nLine2" and every string of
\* letters, blanks and line ends up to MaxLen
ScenarioPlain == <<"L", "i", "n", "e", "1", "\n", "L", "i", "n", "e", "2">>
PlainBodies == StringsUpTo({"a", " ", "\n"}, MaxLen) \cup {ScenarioPlain}
LRCAnswers ==
  {r \in LRCResponses : r.getErr \/ r.status # 200 \/ r.readErr \/ r.body.badJSON}
  \cup {[getErr |-> FALSE, status |-> 200, readErr |-> FALSE,
          body |-> [badJSON |-> FALSE, SyncedLyrics |-> sl, PlainLyrics |-> pl]] :
          sl \in SyncedTexts, pl \in PlainBodies}

\* a track with all three tags and a duration of 200 seconds
TaggedProbe ==
  [fail |-> FALSE, hasTags |-> TRUE,
   tags |-> [NoTagMap EXCEPT !.artist = <<"F">>, !.album = <<"F">>, !.title = <<"F">>]]
LongProbe == [runErr |-> FALSE, kind |-> "number", tenths |-> 2000]

InitFetch ==
  /\ ProgramAtRest
  /\ unitIn \in {[fn |-> "fetchLRCLibLyrics", resp |-> r, writeErr |-> w] :
                   r \in LRCAnswers, w \in BOOLEAN}
  /\ unitOut = <<>>
  /\ embed = EmbedIdle
  /\ tmpDir = {}

\* the walk function on a tagged track without a sidecar: fetchLRCLibLyrics,
\* then os.WriteFile unless it failed
CallFetch ==
  /\ unitIn.fn = "fetchLRCLibLyrics"
  /\ unitOut = <<>>
  /\ unitOut' = <<HandleTrack(TaggedProbe, LongProbe, unitIn.resp, unitIn.writeErr)>>
  /\ UNCHANGED <<ProgramVars, unitIn, embed, tmpDir>>

SpecFetch == InitFetch /\ [][CallFetch]_vars

\* ---------------------------------------------------------------- EmbedAlbumArtIntoFolder

\* temporary files of other processes that may lie in os.TempDir()
OtherTempFiles == {[by |-> 0 - k, content |-> "other"] : k \in 1..2}

\* the album directory and its files in the lexical order of filepath.Walk
EmbedWalk(a) ==
  <<[isDir |-> TRUE, name |-> NotesFile]>> \o
  SelectSeq([k \in 1..Len(SortedNames) |-> [isDir |-> FALSE, name |-> SortedNames[k]]],
            LAMBDA e : e.name \in AlbumContents(a))

InitEmbed ==
  /\ ProgramAtRest
  /\ unitIn = NoCall
  /\ unitOut = <<>>
  /\ embed = EmbedIdle
  /\ tmpDir \in SUBSET OtherTempFiles

\* lines 20-30: without a cover nothing is done; the cover is read
EmbedStart ==
  /\ embed.pc = "idle"
  /\ \E a \in Albums, readErr \in BOOLEAN :
       embed' = IF ~FindCoverImage(AlbumContents(a)).found
                THEN [embed EXCEPT !.pc = "returned", !.album = a, !.ret = "nil"]
                ELSE IF readErr
                THEN [embed EXCEPT !.pc = "returned", !.album = a, !.ret = "err"]
                ELSE [embed EXCEPT !.pc = "walk", !.album = a, !.pos = 1]
  /\ UNCHANGED <<ProgramVars, unitIn, unitOut, tmpDir>>

\* lines 32-49: the walk function on the next entry; an .mp3 is handled by
\* embedCoverMP3 within the step, an .flac enters embedCoverFLAC
EmbedVisit ==
  /\ embed.pc = "walk"
  /\ embed.pos <= Len(EmbedWalk(embed.album))
  /\ LET e == EmbedWalk(embed.album)[embed.pos]
     IN \E walkErr \in BOOLEAN, mp3Err \in BOOLEAN :
          embed' = IF walkErr
                   THEN [embed EXCEPT !.pc = "returned", !.ret = "err"]
                   ELSE IF e.isDir THEN [embed EXCEPT !.pos = @ + 1]
                   ELSE IF ToLower(e.name.ext) = ".mp3"
                   THEN IF mp3Err THEN [embed EXCEPT !.pc = "returned", !.ret = "err"]
                        ELSE [embed EXCEPT !.pos = @ + 1]
                   ELSE IF ToLower(e.name.ext) = ".flac"
                   THEN [embed EXCEPT !.pc = "lookpath"]
                   ELSE [embed EXCEPT !.pos = @ + 1]
  /\ UNCHANGED <<ProgramVars, unitIn, unitOut, tmpDir>>

\* lines 49-51: the walk is through
EmbedReturn ==
  /\ embed.pc = "walk"
  /\ embed.pos > Len(EmbedWalk(embed.album))
  /\ embed' = [embed EXCEPT !.pc = "returned", !.ret = "nil"]
  /\ UNCHANGED <<ProgramVars, unitIn, unitOut, tmpDir>>

\* embedCoverFLAC returns from the step `exit`: the call is noted, and the walk
\* goes on or, on an error, ends with it
FlacReturned(exit, err) ==
  [embed EXCEPT !.calls = Append(@, [exit |-> exit, err |-> err, tmp |-> embed.tmp,
                                     removeFailed |-> embed.removeFailed]),
                !.tmp = 0,
                !.removeFailed = FALSE,
                !.pc = IF err THEN "returned" ELSE "walk",
                !.ret = IF err THEN "err" ELSE @,
                !.pos = IF err THEN @ ELSE @ + 1]

\* the deferred function of lines 118-121: tmp.Close(); os.Remove(tmpPath)
DeferredRemove == {f \in tmpDir : f.by # embed.tmp}

\* lines 107-109: exec.LookPath("metaflac")
FlacLookPath ==
  /\ embed.pc = "lookpath"
  /\ \E missing \in BOOLEAN :
       embed' = IF missing THEN FlacReturned("lookpath", TRUE)
                ELSE [embed EXCEPT !.pc = "create"]
  /\ UNCHANGED <<ProgramVars, unitIn, unitOut, tmpDir>>

\* lines 112-121: os.CreateTemp makes a new, empty file; its removal is deferred
FlacCreateTemp ==
  /\ embed.pc = "create"
  /\ \E createErr \in BOOLEAN :
       IF createErr
       THEN /\ embed' = FlacReturned("create", TRUE)
            /\ UNCHANGED tmpDir
       ELSE /\ embed' = [embed EXCEPT !.pc = "write", !.created = @ + 1,
                                      !.tmp = embed.created + 1]
            /\ tmpDir' = tmpDir \cup {[by |-> embed.created + 1, content |-> "empty"]}
  /\ UNCHANGED <<ProgramVars, unitIn, unitOut>>

\* lines 124-126: tmp.Write(cover)
FlacWrite ==
  /\ embed.pc = "write"
  /\ \E writeErr \in BOOLEAN :
       IF writeErr
       THEN /\ embed' = FlacReturned("write", TRUE)
            /\ tmpDir' = DeferredRemove
       ELSE /\ embed' = [embed EXCEPT !.pc = "sync"]
            /\ tmpDir' = DeferredRemove \cup {[by |-> embed.tmp, content |-> "cover"]}
  /\ UNCHANGED <<ProgramVars, unitIn, unitOut>>

\* lines 127-130: tmp.Sync()
FlacSync ==
  /\ embed.pc = "sync"
  /\ \E syncErr \in BOOLEAN :
       IF syncErr
       THEN /\ embed' = FlacReturned("sync", TRUE)
            /\ tmpDir' = DeferredRemove
       ELSE /\ embed' = [embed EXCEPT !.pc = "remove"]
            /\ UNCHANGED tmpDir
  /\ UNCHANGED <<ProgramVars, unitIn, unitOut>>

\* lines 133-140: metaflac --remove --block-type=PICTURE; a failure is printed
FlacRemovePictures ==
  /\ embed.pc = "remove"
  /\ \E removeErr \in BOOLEAN :
       embed' = [embed EXCEPT !.pc = "import", !.removeFailed = removeErr]
  /\ UNCHANGED <<ProgramVars, unitIn, unitOut, tmpDir>>

\* FlacImport removing the temporary file at the end of the function only
FlacImportLeaking ==
  /\ embed.pc = "import"
  /\ \E importErr \in BOOLEAN :
       /\ embed' = FlacReturned(IF importErr THEN "import" ELSE "success", importErr)
       /\ tmpDir' = IF importErr THEN tmpDir ELSE DeferredRemove
  /\ UNCHANGED <<ProgramVars, unitIn, unitOut>>

\* lines 143-150: metaflac --import-picture-from; the function returns
FlacImport ==
  /\ embed.pc = "import"
  /\ \E importErr \in BOOLEAN :
       embed' = FlacReturned(IF importErr THEN "import" ELSE "success", importErr)
  /\ tmpDir' = DeferredRemove
  /\ UNCHANGED <<ProgramVars, unitIn, unitOut>>

embedCoverFLAC ==
  \/ FlacLookPath
  \/ FlacCreateTemp
  \/ FlacWrite
  \/ FlacSync
  \/ FlacRemovePictures
  \/ FlacImport

NextEmbed == EmbedStart \/ EmbedVisit \/ EmbedReturn \/ embedCoverFLAC

SpecEmbed == InitEmbed /\ [][NextEmbed]_vars

\* ---------------------------------------------------------------- properties

\* C1: single-flight. At most one execution of RunImporter is active at any
\* time, and a trigger request that read the flag while a run was active saw
\* running = TRUE (so it started nothing).
SingleFlight ==
  /\ Cardinality(ActiveRuns) <= 1
  /\ \A q \in Reqs : reqs[q].pc \in {"read", "303"} /\ reqs[q].busy => reqs[q].running

\* C2: the flag tracks the run's lifetime. importerRunning is true exactly
\* when a started RunImporter execution has not yet completed.
FlagTracksRun == importerRunning <=> (ActiveRuns # {})

StageFailures ==
  {"metadataFailed", "metadataPanicked", "replayGainFailed", "embedFailed"}

\* the run is over: RunImporter returned, or the process died under it
RunEnded(r) == runs[r].pc = "done" \/ (crashed /\ runs[r].pc # "none")

\* C3: album-level failure isolation. When metadata resolution, loudness
\* normalization or art embedding fails for an album, nothing of that album is
\* moved, its directory stays, and every other audio-bearing album directory
\* has been taken up by the time the run is over.
AlbumFailureIsolation ==
  \A r \in Reqs, a \in Albums :
    outcome[r][a] \in StageFailures =>
      /\ attempts[r][a] = <<>>
      /\ albumExists[a]
      /\ albumFiles[a] = files0[a]
      /\ RunEnded(r) =>
           \A b \in Albums \ {a} :
             getAudioFiles(files0[b]) # <<>> => outcome[r][b] # "unvisited"

\* C4: track-level move isolation. The move attempts of an album are its
\* enumerated tracks, each once and in enumeration order, whatever failed
\* before; the cover's attempt comes after all of them and is made although
\* tracks failed.
TrackMoveIsolation ==
  \A r \in Reqs, a \in Albums :
    LET att == attempts[r][a]
        en == enumerated[r][a]
        tracksDone == \/ outcome[r][a] = "placed"
                      \/ runs[r].pc \in {"cover", "rmdir"} /\ CurAlbum(r) = a
    IN /\ Len(att) <= Len(en) + 1
       /\ \A k \in 1..Len(att) :
            IF k <= Len(en) THEN att[k].name = en[k] ELSE ~IsAudio(att[k].name)
       /\ tracksDone => Len(att) >= Len(en)
       /\ outcome[r][a] = "placed" /\ FindCoverImage(files0[a]).found =>
            Len(att) = Len(en) + 1

\* a placed album whose first track failed to move, with every later track and
\* the cover attempted nevertheless
TrackMoveIsolationWitness ==
  \E a \in Albums :
    /\ outcome[1][a] = "placed"
    /\ Len(enumerated[1][a]) >= 2
    /\ Len(attempts[1][a]) = Len(enumerated[1][a]) + 1
    /\ ~attempts[1][a][1].ok
    /\ attempts[1][a][2].ok

\* the track was moved into the library by run r
Relocated(r, a, name) ==
  \E k \in 1..Len(attempts[r][a]) : attempts[r][a][k].name = name /\ attempts[r][a][k].ok

\* C5: an album directory is gone only if every enumerated track was
\* relocated; while an enumerated track is still in it the directory exists,
\* and a failed move does not make the album count as failed.
RemovedOnlyWhenRelocated ==
  \A r \in Reqs, a \in Albums :
    /\ ~albumExists[a] =>
         \A k \in 1..Len(enumerated[r][a]) : Relocated(r, a, enumerated[r][a][k])
    /\ (\E k \in 1..Len(enumerated[r][a]) : enumerated[r][a][k] \in albumFiles[a]) =>
         albumExists[a]
    /\ (\E k \in 1..Len(attempts[r][a]) : ~attempts[r][a][k].ok) =>
         outcome[r][a] \in {"unvisited", "placed"}

\* album 1 was emptied and removed; album 2 was placed although a track of it
\* failed to move and is still in its directory
RemovedOnlyWhenRelocatedWitness ==
  /\ ~albumExists[1]
  /\ outcome[1][1] = "placed"
  /\ outcome[1][2] = "placed"
  /\ albumExists[2]
  /\ \E k \in 1..Len(attempts[1][2]) :
       ~attempts[1][2][k].ok /\ attempts[1][2][k].name \in albumFiles[2]

\* C6: fatal batch failures leave everything untouched. A run that finds
\* IMPORT_DIR or LIBRARY_DIR empty, or cannot read the import root, ends
\* having invoked no tool and having moved or removed nothing.
FatalRunTouchesNothing ==
  \A r \in Reqs :
    /\ runs[r].pc = "done" /\ (env.IMPORT_DIR = "" \/ env.LIBRARY_DIR = "") => runs[r].fatal
    /\ runs[r].fatal =>
         /\ runs[r].pc = "done"
         /\ runs[r].calls = {}
         /\ \A a \in Entries : attempts[r][a] = <<>> /\ outcome[r][a] = "unvisited"
         /\ albumFiles = files0
         /\ \A a \in Albums : albumExists[a]
         /\ library = {}

\* a run that ended on the missing LIBRARY_DIR
FatalRunTouchesNothingWitness ==
  runs[1].pc = "done" /\ runs[1].fatal /\ env.IMPORT_DIR # "" /\ env.LIBRARY_DIR = ""

\* the embedded tags as read after the tagging attempt
EmbeddedReading == readTags(resolverIn.probe)

BothTagsPresent ==
  ~EmbeddedReading.err /\ EmbeddedReading.md.Artist # EmptyStr
  /\ EmbeddedReading.md.Album # EmptyStr

\* the first release of the first recording of the provider's answer
FirstRelease ==
  LET r == resolverIn.resp.Recordings[1]
  IN Md(r.Releases[1].ArtistCredit[1].Name, r.Releases[1].Title, r.Title)

\* what C7 says apart from the condition of the fallback: with both tags
\* present the result is the embedded metadata and the provider is not
\* queried, also when beets failed; a result is wholly from one source
ResolverSources ==
  /\ BothTagsPresent =>
       /\ resolverOut.kind = "ok"
       /\ resolverOut.md = EmbeddedReading.md
       /\ resolverOut.search.kind = "none"
  /\ resolverOut.kind = "ok" =>
       \/ resolverOut.search.kind = "none" /\ resolverOut.md = EmbeddedReading.md
       \/ resolverOut.search.kind = "ok" /\ resolverOut.md = FirstRelease

\* C7 as claimed: a result comes from the metadata-search provider only when
\* the embedded-tag reading yields an empty artist or an empty album; with
\* both present the embedded metadata is returned unqueried, a tagging failure
\* alone never causes Unresolved, and no result mixes the two sources.
ResolverFallbackDiscipline ==
  resolverOut.kind # "none" =>
    /\ resolverOut.search.kind = "ok" =>
         /\ ~EmbeddedReading.err
         /\ EmbeddedReading.md.Artist = EmptyStr \/ EmbeddedReading.md.Album = EmptyStr
    /\ ResolverSources

\* C7 amended: a result comes from the metadata-search provider only when the
\* embedded tags cannot be read or the reading yields an empty artist or an
\* empty album; the rest as claimed.
ResolverFallbackOnUnreadable ==
  resolverOut.kind # "none" =>
    /\ resolverOut.search.kind = "ok" =>
         \/ EmbeddedReading.err
         \/ EmbeddedReading.md.Artist = EmptyStr
         \/ EmbeddedReading.md.Album = EmptyStr
    /\ ResolverSources

\* beets failed, the tags could not be read, and the provider's answer was
\* returned with a title the embedded tags do not carry
ResolverFallbackWitness ==
  /\ resolverIn.tagErr
  /\ EmbeddedReading.err
  /\ resolverOut.kind = "ok"
  /\ resolverOut.search.kind = "ok"
  /\ resolverOut.md = FirstRelease
  /\ resolverOut.md.Title # EmptyStr

\* the walk function is about to be called on a track whose sidecar exists
AtTrackWithSidecar ==
  /\ lpc = "walking"
  /\ pos <= Len(walk)
  /\ ~walk[pos].isDir
  /\ IsAudio(walk[pos].name)
  /\ Stat(lrcPath(walk[pos].name))

\* one step as C8 allows it: no .lrc file is replaced or removed, and the
\* visit of a track whose sidecar exists asks the provider nothing, writes
\* nothing, returns no error and lets the walk go on
SidecarKeptStep ==
  /\ \A s \in sidecars : s \in sidecars'
  /\ AtTrackWithSidecar /\ last' # last /\ ~last'.walkErr =>
       /\ requests' = requests
       /\ sidecars' = sidecars
       /\ lpc' = "walking" /\ lret' = "nil"
       /\ pos' = pos + 1

\* no request of a later pass is for a track whose sidecar an earlier pass wrote
NoRequestAfterWrite ==
  \A q \in requests :
    ~\E s \in sidecars : s.path = lrcPath(q.name) /\ s.pass >= 1 /\ s.pass < q.pass

MissingTags(rd) ==
  rd.err \/ rd.md.Artist = EmptyStr \/ rd.md.Title = EmptyStr \/ rd.md.Album = EmptyStr

\* C9: for a visited track whose tags cannot be read or lack artist, title or
\* album, no provider request is issued, no sidecar is written, and the walk
\* continues.
NoRequestOnMissingTags ==
  last.track /\ ~last.hadSidecar /\ MissingTags(last.out.read) =>
    /\ ~last.out.requested
    /\ [pass |-> pass, name |-> last.name] \notin requests
    /\ ~Stat(lrcPath(last.name))
    /\ lpc = "walking" /\ lret = "nil"

\* the first track was read with artist and title but no album, and the walk
\* is at the second track
NoRequestOnMissingTagsWitness ==
  /\ last.track /\ ~last.hadSidecar
  /\ last.name = TrackName(1)
  /\ ~last.out.read.err
  /\ last.out.read.md.Album = EmptyStr
  /\ last.out.read.md.Artist # EmptyStr
  /\ last.out.read.md.Title # EmptyStr
  /\ lpc = "walking" /\ pos = 3

\* C10: lyrics failures are item-scoped. Whatever fails while one track is
\* handled, the walk goes on to the remaining entries: DownloadAlbumLyrics
\* returns only after the last entry, and without an error.
LyricsFailuresItemScoped ==
  lpc = "returned" /\ ~last.walkErr => lret = "nil" /\ pos > Len(walk)

\* the album directory held nothing but audio tracks and at most one cover
OnlyTracksAndCover(a) ==
  \A f \in files0[a] :
    IsAudio(f) \/ (FindCoverImage(files0[a]).found /\ f = FindCoverImage(files0[a]).name)

\* every file of the album was handed to moveToLibrary by run r, and every
\* move succeeded
AllMovesSucceeded(r, a) ==
  /\ \A f \in files0[a] : \E k \in 1..Len(attempts[r][a]) : attempts[r][a][k].name = f
  /\ \A k \in 1..Len(attempts[r][a]) : attempts[r][a][k].ok

\* the file of album a that run r moved lies where that move put it
ResidesInLibrary(r, a, f) ==
  \E k \in 1..Len(attempts[r][a]) :
    /\ attempts[r][a][k].name = f
    /\ [dir |-> attempts[r][a][k].dir, name |-> f,
        file |-> [album |-> a, name |-> f]] \in library

\* C11: successful-album postcondition. For an album directory of tracks and
\* at most one cover whose metadata resolved and whose normalization,
\* embedding and moves all succeeded (and whose emptied directory the file
\* system did not refuse to remove), when the run has completed every track
\* and the cover lie at {library}/{sanitize(artist)}/{sanitize(album)}/{name}
\* and the album directory is gone.
SuccessfulAlbumPlaced ==
  \A r \in Reqs, a \in Albums :
    /\ runs[r].pc = "done"
    /\ outcome[r][a] = "placed"
    /\ OnlyTracksAndCover(a)
    /\ AllMovesSucceeded(r, a)
    /\ ~(albumExists[a] /\ albumFiles[a] = {})
    => /\ \A f \in files0[a] : ResidesInLibrary(r, a, f)
       /\ ~albumExists[a]

\* d rounded half-up to whole seconds, for d >= 0 given in tenths
RoundHalfUp(tenths) ==
  CHOOSE n \in 0..(tenths \div 10 + 1) : 10 * n - 5 <= tenths /\ tenths < 10 * n + 5

\* C12: duration rounding. TrackDuration returns the reported duration
\* rounded half-up to whole seconds when it is not negative, and a failure
\* when it is negative or the output is no number.
DurationRounding ==
  unitOut # <<>> =>
    LET p == unitIn.probe
        o == unitOut[1]
    IN IF p.runErr \/ p.kind # "number" \/ p.tenths < 0
       THEN o.err
       ELSE ~o.err /\ o.seconds = RoundHalfUp(p.tenths)

UnsafeChars == {"/", "\\", ":", "?", "*", "\"", "<", ">", "|"}

\* C13: sanitize is defined for every string, its result holds none of the
\* characters / \ : ? * " < > |, and sanitizing the result changes nothing.
SanitizerSafeIdempotent ==
  /\ \A k \in 1..Len(unitOut) :
       /\ unitOut[k] \in StringsUpTo(NameAlphabet, Len(unitIn.s))
       /\ \A m \in 1..Len(unitOut[k]) : unitOut[k][m] \notin UnsafeChars
  /\ Len(unitOut) = 2 => unitOut[2] = unitOut[1]

\* a string of a replaced and a deleted character was sanitized twice
SanitizerSafeIdempotentWitness ==
  /\ Len(unitOut) = 2
  /\ unitIn.s = <<"/", "?">>
  /\ unitOut[1] = <<"_">>

\* the result of the walk function's call is the lyrics `text`, written or
\* refused by os.WriteFile
Delivered(o, text) ==
  /\ ~o.fetch.err
  /\ o.fetch.lyrics = text
  /\ o.step \in {"wrote", "writeFailed"}

\* text is the lines `lines`, each behind the zero stamp and ended by a newline
Stamped(text, lines) ==
  LET outLines == Split(text)
  IN /\ Len(outLines) = Len(lines) + 1
     /\ outLines[Len(outLines)] = <<>>
     /\ \A k \in 1..Len(lines) : outLines[k] = ZeroStamp \o lines[k]

\* the provider answered 200 with a body that parses
Answered(resp) == ~resp.getErr /\ resp.status = 200 /\ ~resp.readErr /\ ~resp.body.badJSON

\* C14 as claimed: the synced lyrics are returned unchanged when not empty;
\* else the plain lyrics, when not empty, with every line prefixed by
\* "[00:00.00] " and ended by a newline; else the call fails and no sidecar is
\* written.
LyricsSelection ==
  unitOut # <<>> =>
    LET resp == unitIn.resp
        o == unitOut[1]
    IN IF Answered(resp) /\ resp.body.SyncedLyrics # EmptyStr
       THEN Delivered(o, resp.body.SyncedLyrics)
       ELSE IF Answered(resp) /\ resp.body.PlainLyrics # EmptyStr
       THEN ~o.fetch.err /\ Stamped(o.fetch.lyrics, Split(resp.body.PlainLyrics))
       ELSE o.fetch.err /\ o.step = "skipped"

\* the lines with the white space around each removed
RECURSIVE TrimEach(_)
TrimEach(lines) ==
  IF lines = <<>> THEN <<>> ELSE <<TrimSpace(Head(lines))>> \o TrimEach(Tail(lines))

\* C14 amended: as claimed, but each line of the plain lyrics is stripped of
\* the white space around it before it is prefixed.
LyricsSelectionTrimmed ==
  unitOut # <<>> =>
    LET resp == unitIn.resp
        o == unitOut[1]
    IN IF Answered(resp) /\ resp.body.SyncedLyrics # EmptyStr
       THEN Delivered(o, resp.body.SyncedLyrics)
       ELSE IF Answered(resp) /\ resp.body.PlainLyrics # EmptyStr
       THEN ~o.fetch.err /\ Stamped(o.fetch.lyrics, TrimEach(Split(resp.body.PlainLyrics)))
       ELSE o.fetch.err /\ o.step = "skipped"

\* the provider answered with the plain lyrics "Line1\nLine2" only, and the
\* sidecar was written with both lines stamped
LyricsSelectionWitness ==
  /\ unitOut # <<>>
  /\ unitIn.resp.body.SyncedLyrics = EmptyStr
  /\ unitIn.resp.body.PlainLyrics = ScenarioPlain
  /\ unitOut[1].step = "wrote"
  /\ unitOut[1].fetch.url.duration = 200
  /\ unitOut[1].fetch.lyrics =
       ZeroStamp \o <<"L", "i", "n", "e", "1", "\n">> \o
       ZeroStamp \o <<"L", "i", "n", "e", "2", "\n">>

\* C17: placement confinement. The destination moveToLibrary computes is
\* {library root}/{one artist directory}/{one album directory}/{basename}:
\* inside the library root, at depth two, whatever artist and album are.
PlacementConfined ==
  unitOut # <<>> =>
    /\ unitOut[1].dir.up = 0
    /\ Len(unitOut[1].dir.comps) = 2
    /\ unitOut[1].name = unitIn.name

\* the track's path with its extension removed, followed by ".lrc"
BesideTrack(name) == [stem |-> name.stem, ext |-> ".lrc"]

\* C15: sidecar location. The path DownloadAlbumLyrics checks and writes for a
\* track is the track's path without its extension plus ".lrc": every sidecar
\* it wrote lies there, and a track it did not pass over had no file there.
SidecarBesideTrack ==
  /\ \A s \in sidecars :
       s.pass >= 1 => \E n \in LyricsTracks : s.path = BesideTrack(n)
  /\ last.track /\ ~last.hadSidecar =>
       ~\E s \in sidecars : s.path = BesideTrack(last.name) /\ s.pass < pass

\* C18: no library data loss. No step removes or replaces a file of the
\* library: every file that lies in it before a move lies there after it,
\* with the same content.
LibraryFilesKept == [][\A e \in library : e \in library']_vars

\* C19: resolver totality. Whatever the metadata-search provider answers,
\* fetchMusicBrainzInfo returns a metadata value or an error: no album's
\* resolution ends in a crash, and the run goes on.
ResolverTotal ==
  /\ ~crashed
  /\ \A r \in Reqs, a \in Albums : outcome[r][a] # "metadataPanicked"

\* C20: duration precondition of the lyrics query. A request for a track
\* carries a duration that TrackDuration computed without error; when the
\* probe fails no request is sent.
RequestCarriesComputedDuration ==
  last.track /\ last.out.requested =>
    /\ ~last.out.dur.err
    /\ [pass |-> pass, name |-> last.name] \in requests

\* a call of embedCoverFLAC is between os.CreateTemp and its return
InsideFlacCall == embed.pc \in {"write", "sync", "remove", "import"}

====
